---- MODULE Spec2Model ----
(***************************************************************************)
(* The user-management API of the repository as a state machine: the      *)
(* account store behind the Mongoose schema, the controller's handlers,   *)
(* the validation middleware, the router's dispatch table and the tokens  *)
(* the handlers sign.  Text values are sequences of one-character strings *)
(* so that the regular expressions of the code can be evaluated.          *)
(***************************************************************************)
EXTENDS Naturals, Integers, Sequences, FiniteSets, TLC

VARIABLES
    users,      \* the users collection: _id -> stored document
    nextId,     \* the next _id the store assigns
    tokens,     \* the tokens jwt.sign has issued so far
    asked,      \* per token, the role register passed to User.create (history)
    now,        \* the clock, in days
    inflight,   \* register calls suspended between findOne and create
    req,        \* the request of the operation that completed last
    ran,        \* the middlewares and the handler that ran on it, in order
    res,        \* the response that operation ended with
    nextArg,    \* what the handler passed to next: "none" when not called
    calls,      \* the store operations that operation invoked
    storage,    \* the client's localStorage item "token": <<>> when absent
    pending,    \* the client's requests awaiting their response
    sent,       \* the request the client sent last since the token changed hands
    cleared,    \* a 401 or a logout happened and no login succeeded since (history)
    got,        \* of the response the client received last: its service, whether it resolved, its token
    hits,       \* the requests the rate limiter has counted in the current window
    windowAge   \* the minutes since the current window of the rate limiter began

serverVars == <<users, nextId, tokens, asked, now, inflight, req, ran, res, nextArg, calls>>

clientVars == <<storage, pending, sent, cleared, got>>

limiterVars == <<hits, windowAge>>

vars == <<users, nextId, tokens, asked, now, inflight, req, ran, res, nextArg, calls,
          storage, pending, sent, cleared, got, hits, windowAge>>

--------------------------------------------------------------------------
(* Bounds of the model *)

MaxUsers == 2
MaxTokens == 1
MaxInflight == 2
MaxTicks == 1
MaxPending == 2
MaxOver == 2

--------------------------------------------------------------------------
(* Program constants *)

NameMinLen == 2
NameMaxLen == 30
InitialMinLen == 1
InitialMaxLen == 3
EmailMinLen == 10
EmailMaxLen == 50
AgeMin == 1
AgeMax == 500
TokenLifetimeDays == 7
LoginLifetimeDays == 7
RateLimitMax == 100
RateLimitWindowMinutes == 15

--------------------------------------------------------------------------
(* Text *)

Letters ==
    {"A","B","C","D","E","F","G","H","I","J","K","L","M",
     "N","O","P","Q","R","S","T","U","V","W","X","Y","Z",
     "a","b","c","d","e","f","g","h","i","j","k","l","m",
     "n","o","p","q","r","s","t","u","v","w","x","y","z"}

Digits == {"0","1","2","3","4","5","6","7","8","9"}

WordChars == Letters \cup Digits \cup {"_"}

AllIn(s, chars) == \A i \in 1..Len(s) : s[i] \in chars

\* /^[A-Za-z ]+$/
nameRegex(s) == Len(s) > 0 /\ AllIn(s, Letters \cup {" "})

\* /^[A-Za-z]+$/
initialRegex(s) == Len(s) > 0 /\ AllIn(s, Letters)

EmailSuffix == <<"@","s","m","u",".","e","d","u",".","p","h">>

\* /^[\w.-]+@smu\.edu\.ph$/
emailRegex(s) ==
    LET k == Len(s) - Len(EmailSuffix) IN
    /\ k >= 1
    /\ SubSeq(s, k + 1, Len(s)) = EmailSuffix
    /\ AllIn(SubSeq(s, 1, k), WordChars \cup {".", "-"})

RECURSIVE TrimLeft(_)
TrimLeft(s) == IF s # <<>> /\ Head(s) = " " THEN TrimLeft(Tail(s)) ELSE s

RECURSIVE TrimRight(_)
TrimRight(s) ==
    IF s # <<>> /\ s[Len(s)] = " " THEN TrimRight(SubSeq(s, 1, Len(s) - 1)) ELSE s

\* the schema's trim: true setter
Trim(s) == TrimRight(TrimLeft(s))

--------------------------------------------------------------------------
(* Request bodies: `has` is the set of keys the JSON body carries *)

TextPaths == {"firstName", "lastName", "middleInitial", "email"}

SchemaPaths == TextPaths \cup {"age", "gender"}

RequiredPaths == {"firstName", "lastName", "email", "age", "gender"}

allowedGenders == {"male", "female", "rather not say"}

Has(b, f) == f \in b.has

\* JavaScript truthiness of body[f]: undefined, "" and 0 are falsy
Truthy(b, f) ==
    /\ Has(b, f)
    /\ IF f = "age" THEN b[f] # 0
       ELSE IF f \in {"gender", "role"} THEN b[f] # ""
       ELSE b[f] # <<>>

--------------------------------------------------------------------------
(* validateUser: the first failing check answers; "" is no answer, next() *)

Missing == "Some Fields are Missing"
BadNames == "Names must contain only letters and spaces"
BadEmail == "Only smu.edu.ph Emails Onlys"
BadAge == "Age Must Be Between 1 and 500"
BadGender == "Gender is Invalid"

\* a validateUser that tests the age range before the presence of the fields
validateUserRangeFirst(b) ==
    IF Has(b, "age") /\ (b.age < AgeMin \/ b.age > AgeMax) THEN BadAge
    ELSE IF \E f \in RequiredPaths : ~Truthy(b, f) THEN Missing
    ELSE IF \/ ~nameRegex(b.firstName)
            \/ ~nameRegex(b.lastName)
            \/ (Truthy(b, "middleInitial") /\ ~initialRegex(b.middleInitial))
         THEN BadNames
    ELSE IF ~emailRegex(b.email) THEN BadEmail
    ELSE IF b.gender \notin allowedGenders THEN BadGender
    ELSE ""

validateUser(b) ==
    IF \E f \in RequiredPaths : ~Truthy(b, f) THEN Missing
    ELSE IF \/ ~nameRegex(b.firstName)
            \/ ~nameRegex(b.lastName)
            \/ (Truthy(b, "middleInitial") /\ ~initialRegex(b.middleInitial))
         THEN BadNames
    ELSE IF ~emailRegex(b.email) THEN BadEmail
    ELSE IF b.age < AgeMin \/ b.age > AgeMax THEN BadAge
    ELSE IF b.gender \notin allowedGenders THEN BadGender
    ELSE ""

\* a validateUser whose gender check answers without returning
validateUserFallThrough(b) ==
    IF validateUser(b) = "" THEN [sent |-> <<>>, nexts |-> 1]
    ELSE IF validateUser(b) = BadGender THEN [sent |-> <<BadGender>>, nexts |-> 1]
    ELSE [sent |-> <<validateUser(b)>>, nexts |-> 0]

\* what validateUser does to res and next: every failing check returns its
\* response, next() is reached only past the last check
validateUserOutcome(b) ==
    IF validateUser(b) = "" THEN [sent |-> <<>>, nexts |-> 1]
    ELSE [sent |-> <<validateUser(b)>>, nexts |-> 0]

--------------------------------------------------------------------------
(* The schema.  It declares firstName, lastName, middleInitial, email, age *)
(* and gender and no other path: under Mongoose's strict mode a key of the *)
(* input that is no path of the schema (password, role) is not stored, and *)
(* reading it from a document yields undefined.                            *)

Undef == "undefined"

\* the value the schema's setters give path f of input b
CastPath(b, f) == IF f \in TextPaths THEN Trim(b[f]) ELSE b[f]

\* the validators of path f on a value that is present
PathValid(f, v) ==
    CASE f \in {"firstName", "lastName"} ->
            /\ v # <<>>
            /\ initialRegex(v)
            /\ Len(v) >= NameMinLen
            /\ Len(v) <= NameMaxLen
      [] f = "middleInitial" ->
            /\ (v = <<>> \/ initialRegex(v))
            /\ Len(v) >= InitialMinLen
            /\ Len(v) <= InitialMaxLen
      [] f = "email" ->
            /\ v # <<>>
            /\ emailRegex(v)
            /\ Len(v) >= EmailMinLen
            /\ Len(v) <= EmailMaxLen
      [] f = "age" -> v >= AgeMin /\ v <= AgeMax
      [] f = "gender" -> v \in allowedGenders

\* document validation on save: required paths present, every present path valid
DocValid(b) ==
    /\ \A f \in RequiredPaths : Has(b, f)
    /\ \A f \in SchemaPaths : Has(b, f) => PathValid(f, CastPath(b, f))

\* the document of a schema that declares a selectable password path
MakeDocKeepPassword(id, b) ==
    [_id |-> id,
     firstName |-> CastPath(b, "firstName"),
     lastName |-> CastPath(b, "lastName"),
     middleInitial |-> IF Has(b, "middleInitial") THEN CastPath(b, "middleInitial") ELSE <<>>,
     email |-> CastPath(b, "email"),
     age |-> b.age,
     gender |-> b.gender,
     password |-> b.password]

\* the document the schema makes of input b
MakeDoc(id, b) ==
    [_id |-> id,
     firstName |-> CastPath(b, "firstName"),
     lastName |-> CastPath(b, "lastName"),
     middleInitial |-> IF Has(b, "middleInitial") THEN CastPath(b, "middleInitial") ELSE <<>>,
     email |-> CastPath(b, "email"),
     age |-> b.age,
     gender |-> b.gender]

\* user.role read from a document: role is no path of the schema
roleOf(doc) == Undef

\* user.password read from a document: password is no path of the schema,
\* and no hook of the schema hashes one
credentialOf(doc) == Undef

\* the instance methods the schema declares: none
SchemaMethods == {}

\* the unique index on email
EmailTaken(us, email, except) ==
    \E i \in DOMAIN us : i \notin except /\ us[i].email = email

--------------------------------------------------------------------------
(* Store operations: [err, docs, users, nextId]; docs is <<>> for null *)

NoErr == "none"

StoreRes(err, docs, us, nid) == [err |-> err, docs |-> docs, users |-> us, nextId |-> nid]

\* a path segment used as an _id: a number is an ObjectId, a literal is not
IsObjectId(seg) == seg.lit = ""

findOne(email) ==
    LET hit == {i \in DOMAIN users : users[i].email = Trim(email)} IN
    IF hit = {} THEN StoreRes(NoErr, <<>>, users, nextId)
    ELSE StoreRes(NoErr, <<users[CHOOSE i \in hit : TRUE]>>, users, nextId)

\* create on a collection whose email index is not unique
createNoIndex(b) ==
    IF ~DocValid(b) THEN StoreRes("ValidationError", <<>>, users, nextId)
    ELSE LET doc == MakeDoc(nextId, b) IN
         StoreRes(NoErr, <<doc>>, (nextId :> doc) @@ users, nextId + 1)

create(b) ==
    IF ~DocValid(b) THEN StoreRes("ValidationError", <<>>, users, nextId)
    ELSE IF EmailTaken(users, CastPath(b, "email"), {})
         THEN StoreRes("DuplicateKey", <<>>, users, nextId)
    ELSE LET doc == MakeDoc(nextId, b) IN
         StoreRes(NoErr, <<doc>>, (nextId :> doc) @@ users, nextId + 1)

findById(seg) ==
    IF ~IsObjectId(seg) THEN StoreRes("CastError", <<>>, users, nextId)
    ELSE IF seg.n \in DOMAIN users THEN StoreRes(NoErr, <<users[seg.n]>>, users, nextId)
    ELSE StoreRes(NoErr, <<>>, users, nextId)

find == StoreRes(NoErr, [i \in 1..Cardinality(DOMAIN users) |->
                            users[CHOOSE k \in DOMAIN users :
                                Cardinality({j \in DOMAIN users : j < k}) = i - 1]],
                 users, nextId)

findByIdAndDelete(seg) ==
    IF ~IsObjectId(seg) THEN StoreRes("CastError", <<>>, users, nextId)
    ELSE IF seg.n \in DOMAIN users
         THEN StoreRes(NoErr, <<users[seg.n]>>,
                       [i \in DOMAIN users \ {seg.n} |-> users[i]], nextId)
    ELSE StoreRes(NoErr, <<>>, users, nextId)

\* deleteMany({}): every document goes
deleteMany == StoreRes(NoErr, <<>>, << >>, nextId)

\* document old with the paths in set replaced by their values in b
Updated(old, set, b) ==
    [_id |-> old._id,
     firstName |-> IF "firstName" \in set THEN CastPath(b, "firstName") ELSE old.firstName,
     lastName |-> IF "lastName" \in set THEN CastPath(b, "lastName") ELSE old.lastName,
     middleInitial |-> IF "middleInitial" \in set THEN CastPath(b, "middleInitial")
                       ELSE old.middleInitial,
     email |-> IF "email" \in set THEN CastPath(b, "email") ELSE old.email,
     age |-> IF "age" \in set THEN b.age ELSE old.age,
     gender |-> IF "gender" \in set THEN b.gender ELSE old.gender]

\* an update that writes the email without consulting the unique index
findByIdAndUpdateNoIndex(seg, b) ==
    LET set == b.has \cap SchemaPaths IN
    IF ~IsObjectId(seg) THEN StoreRes("CastError", <<>>, users, nextId)
    ELSE IF \E f \in set : ~PathValid(f, CastPath(b, f))
         THEN StoreRes("ValidationError", <<>>, users, nextId)
    ELSE IF seg.n \notin DOMAIN users THEN StoreRes(NoErr, <<>>, users, nextId)
    ELSE LET doc == Updated(users[seg.n], set, b)
         IN StoreRes(NoErr, <<doc>>, [users EXCEPT ![seg.n] = doc], nextId)

\* findByIdAndUpdate(id, update, {new: true, runValidators: true})
findByIdAndUpdate(seg, b) ==
    LET set == b.has \cap SchemaPaths IN
    IF ~IsObjectId(seg) THEN StoreRes("CastError", <<>>, users, nextId)
    ELSE IF \E f \in set : ~PathValid(f, CastPath(b, f))
         THEN StoreRes("ValidationError", <<>>, users, nextId)
    ELSE IF seg.n \notin DOMAIN users THEN StoreRes(NoErr, <<>>, users, nextId)
    ELSE IF "email" \in set /\ EmailTaken(users, CastPath(b, "email"), {seg.n})
         THEN StoreRes("DuplicateKey", <<>>, users, nextId)
    ELSE LET doc == Updated(users[seg.n], set, b)
         IN StoreRes(NoErr, <<doc>>, [users EXCEPT ![seg.n] = doc], nextId)

--------------------------------------------------------------------------
(* Responses and handler outcomes *)

NoCount == -1

Res(status, success, message) ==
    [status |-> status, success |-> success, message |-> message,
     docs |-> <<>>, user |-> <<>>, token |-> <<>>, count |-> NoCount, by |-> "handler"]

NoRes == [Res(0, FALSE, "") EXCEPT !.by = "nobody"]

NotCalled == "none"

\* errorHandler: the response to an error a handler passed to next
errorHandler(err) ==
    LET r == CASE err = "ValidationError" -> Res(400, FALSE, "Validation failed")
               [] err = "DuplicateKey" -> Res(400, FALSE, "User with this email already exists")
               [] OTHER -> Res(500, FALSE, "Internal Server Error")
    IN [r EXCEPT !.by = "errorHandler"]

\* a catch block that answers 500 itself and never calls next
ThrowSwallow(err, cs) ==
    [users |-> users, nextId |-> nextId, tokens |-> tokens, asked |-> asked,
     res |-> Res(500, FALSE, "Internal Server Error"), nextArg |-> NotCalled, calls |-> cs]

\* a handler that answered itself
Answer(sr, r, cs, toks) ==
    [users |-> sr.users, nextId |-> sr.nextId, tokens |-> toks, asked |-> asked,
     res |-> r, nextArg |-> NotCalled, calls |-> cs]

\* catch (error) { next(error) }: the handler writes nothing, the error handler answers
Throw(err, cs) ==
    [users |-> users, nextId |-> nextId, tokens |-> tokens, asked |-> asked,
     res |-> errorHandler(err), nextArg |-> err, calls |-> cs]

Unchanged == StoreRes(NoErr, <<>>, users, nextId)

\* a register that signs with the two-day lifetime
signTwoDays(doc) ==
    [id |-> doc._id, email |-> doc.email, role |-> roleOf(doc),
     iat |-> now, exp |-> now + 2]

\* jwt.sign({id, email, role}, secret, {expiresIn: "7d"})
sign(doc) ==
    [id |-> doc._id, email |-> doc.email, role |-> roleOf(doc),
     iat |-> now, exp |-> now + TokenLifetimeDays]

\* the user object of the register and login responses
Summary(doc) ==
    [id |-> doc._id, firstName |-> doc.firstName, lastName |-> doc.lastName,
     email |-> doc.email, role |-> roleOf(doc)]

--------------------------------------------------------------------------
(* The controller.  r is the request: body, params.id (seg), user *)

\* a register that skips the lookup
registerLookupNone(r) == Unchanged

\* register up to its first await: the lookup by email
registerLookup(r) ==
    IF Has(r.body, "email") THEN findOne(r.body.email) ELSE Unchanged

registerExists(r) ==
    Answer(Unchanged, Res(400, FALSE, "User with this email already exists"),
           {"findOne"}, tokens)

\* role: role || "staff", the role register passes to User.create
roleArg(b) == IF Truthy(b, "role") THEN b.role ELSE "staff"

\* register from User.create on
registerCreate(r) ==
    LET sr == create(r.body) IN
    IF sr.err # NoErr THEN Throw(sr.err, {"findOne", "create"})
    ELSE LET user == sr.docs[1]
             token == sign(user)
         IN [Answer(sr,
                    [Res(201, TRUE, "User registered successfully")
                        EXCEPT !.user = <<Summary(user)>>, !.token = <<token>>],
                    {"findOne", "create"}, tokens \cup {token})
                EXCEPT !.asked = (token :> roleArg(r.body)) @@ asked]

\* jwt.sign of login
signLogin(doc) ==
    [id |-> doc._id, email |-> doc.email, role |-> roleOf(doc),
     iat |-> now, exp |-> now + LoginLifetimeDays]

\* a login that looks the email up before it checks the fields
loginLookupFirst(r) ==
    Answer(Unchanged, Res(400, FALSE, "Email and password are required"), {"findOne"}, tokens)

\* user.comparePassword(password): calling a method the schema does not
\* declare throws a TypeError, which the catch block passes to next
login(r) ==
    IF ~Truthy(r.body, "email") \/ ~Truthy(r.body, "password")
    THEN Answer(Unchanged, Res(400, FALSE, "Email and password are required"), {}, tokens)
    ELSE LET sr == findOne(r.body.email) IN
         IF sr.docs = <<>>
         THEN Answer(Unchanged, Res(401, FALSE, "Invalid email or password"),
                     {"findOne"}, tokens)
         ELSE IF "comparePassword" \notin SchemaMethods
         THEN Throw("TypeError", {"findOne"})
         ELSE IF credentialOf(sr.docs[1]) # r.body.password
         THEN Answer(Unchanged, Res(401, FALSE, "Invalid email or password"),
                     {"findOne"}, tokens)
         ELSE LET token == signLogin(sr.docs[1]) IN
              Answer(Unchanged,
                     [Res(200, TRUE, "Login successful")
                         EXCEPT !.user = <<Summary(sr.docs[1])>>, !.token = <<token>>],
                     {"findOne"}, tokens \cup {token})

\* a getProfile that does not test what findById returned
getProfileNoCheck(r) ==
    IF r.user = <<>> THEN Throw("TypeError", {})
    ELSE Answer(Unchanged,
                [Res(200, TRUE, "") EXCEPT
                    !.docs = findById([lit |-> "", n |-> r.user[1].id]).docs],
                {"findById"}, tokens)

getProfile(r) ==
    IF r.user = <<>> THEN Throw("TypeError", {})
    ELSE LET sr == findById([lit |-> "", n |-> r.user[1].id]) IN
         IF sr.docs = <<>>
         THEN Answer(Unchanged, Res(404, FALSE, "User not found"), {"findById"}, tokens)
         ELSE Answer(Unchanged, [Res(200, TRUE, "") EXCEPT !.docs = sr.docs],
                     {"findById"}, tokens)

getAllUsers(r) ==
    LET sr == find IN
    Answer(Unchanged, [Res(200, TRUE, "") EXCEPT !.docs = sr.docs, !.count = Len(sr.docs)],
           {"find"}, tokens)

createUser(r) ==
    LET sr == create(r.body) IN
    IF sr.err # NoErr THEN Throw(sr.err, {"create"})
    ELSE Answer(sr, [Res(201, TRUE, "") EXCEPT !.docs = sr.docs], {"create"}, tokens)

getUserById(r) ==
    LET sr == findById(r.seg) IN
    IF sr.err # NoErr THEN Throw(sr.err, {"findById"})
    ELSE IF sr.docs = <<>>
         THEN Answer(Unchanged, Res(404, FALSE, "User Not Found"), {"findById"}, tokens)
    ELSE Answer(Unchanged, [Res(200, TRUE, "") EXCEPT !.docs = sr.docs],
                {"findById"}, tokens)

deleteUser(r) ==
    LET sr == findByIdAndDelete(r.seg) IN
    IF sr.err # NoErr THEN Throw(sr.err, {"findByIdAndDelete"})
    ELSE IF sr.docs = <<>>
         THEN Answer(Unchanged, Res(404, FALSE, "User not found"),
                     {"findByIdAndDelete"}, tokens)
    ELSE Answer(sr, [Res(200, TRUE, "User deleted") EXCEPT !.docs = sr.docs],
                {"findByIdAndDelete"}, tokens)

\* result.deletedCount of deleteMany({}) on collection us
deletedCount(us) == Cardinality(DOMAIN us)

\* `${n} users deleted`
deletedMessage(n) == ToString(n) \o " users deleted"

\* a deleteAllUsers that counts the collection after it has emptied it
deleteAllUsersRecount(r) ==
    Answer(deleteMany, Res(200, TRUE, deletedMessage(deletedCount(deleteMany.users))),
           {"deleteMany"}, tokens)

deleteAllUsers(r) ==
    Answer(deleteMany, Res(200, TRUE, deletedMessage(deletedCount(users))),
           {"deleteMany"}, tokens)

\* users.length of a document is undefined: the response carries no count
updateUser(r) ==
    LET sr == findByIdAndUpdate(r.seg, r.body) IN
    IF sr.err # NoErr THEN Throw(sr.err, {"findByIdAndUpdate"})
    ELSE IF sr.docs = <<>>
         THEN Answer(Unchanged, Res(404, FALSE, "Users Not Found"),
                     {"findByIdAndUpdate"}, tokens)
    ELSE Answer(sr, [Res(200, TRUE, "") EXCEPT !.docs = sr.docs],
                {"findByIdAndUpdate"}, tokens)

\* the handler of the given name, run to completion
Handle(op, r) ==
    CASE op = "login" -> login(r)
      [] op = "getProfile" -> getProfile(r)
      [] op = "getAllUsers" -> getAllUsers(r)
      [] op = "createUser" -> createUser(r)
      [] op = "getUserById" -> getUserById(r)
      [] op = "updateUser" -> updateUser(r)
      [] op = "deleteUser" -> deleteUser(r)
      [] op = "deleteAllUsers" -> deleteAllUsers(r)

--------------------------------------------------------------------------
(* Tokens and the middlewares that read them.  auth.middleware.js,        *)
(* role.middleware.js and errorHandler.middleware.js are required by      *)
(* middlewares/index.js and are not among the sources.                    *)

\* jwt.verify: the signature, the shape and the expiry claim
verify(tv) ==
    IF tv.kind = "malformed" THEN "malformed"
    ELSE IF tv.kind # "signed" \/ tv.claims \notin tokens THEN "bad signature"
    ELSE IF now >= tv.claims.exp THEN "expired"
    ELSE "ok"

\* an auth middleware that tells the client which check failed
authMiddlewareLeaky(h) ==
    IF h.scheme # "Bearer" \/ h.tok = <<>>
    THEN [res |-> [Res(401, FALSE, "No token provided") EXCEPT !.by = "auth"],
          user |-> <<>>, next |-> FALSE]
    ELSE IF verify(h.tok[1]) = "expired"
    THEN [res |-> [Res(401, FALSE, "Token expired") EXCEPT !.by = "auth"],
          user |-> <<>>, next |-> FALSE]
    ELSE IF verify(h.tok[1]) # "ok"
    THEN [res |-> [Res(401, FALSE, "Invalid or expired token") EXCEPT !.by = "auth"],
          user |-> <<>>, next |-> FALSE]
    ELSE [res |-> NoRes, user |-> <<h.tok[1].claims>>, next |-> TRUE]

\* the auth middleware on the Authorization header h: [res, user, next]
authMiddleware(h) ==
    IF h.scheme # "Bearer" \/ h.tok = <<>>
    THEN [res |-> [Res(401, FALSE, "No token provided") EXCEPT !.by = "auth"],
          user |-> <<>>, next |-> FALSE]
    ELSE IF verify(h.tok[1]) # "ok"
    THEN [res |-> [Res(401, FALSE, "Invalid or expired token") EXCEPT !.by = "auth"],
          user |-> <<>>, next |-> FALSE]
    ELSE [res |-> NoRes, user |-> <<h.tok[1].claims>>, next |-> TRUE]

\* checkRole(...allowedRoles) on the identity the auth middleware attached
checkRole(allowed, user) ==
    IF user = <<>>
    THEN [res |-> errorHandler("TypeError"), next |-> FALSE]
    ELSE IF user[1].role \in allowed THEN [res |-> NoRes, next |-> TRUE]
    ELSE [res |-> [Res(403, FALSE, "Forbidden") EXCEPT !.by = "checkRole"], next |-> FALSE]

--------------------------------------------------------------------------
(* The router mounted at /api/users.  A path is its segment after the     *)
(* mount point: Root, a literal, or an id.                                *)

Root == [lit |-> "/", n |-> 0]

Lit(name) == [lit |-> name, n |-> 0]

IdSeg(i) == [lit |-> "", n |-> i]

NoRoute == [chain |-> <<>>, handler |-> "none"]

\* the routes in their order of registration; the first match handles
Route(method, seg) ==
    IF method = "DELETE" /\ seg = Lit("deleteAllUsers")
    THEN [chain |-> <<>>, handler |-> "deleteAllUsers"]
    ELSE IF method = "GET" /\ seg = Root
    THEN [chain |-> <<>>, handler |-> "getAllUsers"]
    ELSE IF method = "POST" /\ seg = Root
    THEN [chain |-> <<"validateUser">>, handler |-> "createUser"]
    ELSE IF method = "GET" /\ seg # Root
    THEN [chain |-> <<>>, handler |-> "getUserById"]
    ELSE IF method = "PUT" /\ seg # Root
    THEN [chain |-> <<"validateUser">>, handler |-> "updateUser"]
    ELSE IF method = "DELETE" /\ seg # Root
    THEN [chain |-> <<>>, handler |-> "deleteUser"]
    ELSE NoRoute

\* an HTTP request through app.js: [out, ran]
Serve(method, seg, body) ==
    LET rt == Route(method, seg)
        r == [body |-> body, seg |-> seg, user |-> <<>>]
    IN
    IF rt = NoRoute
    THEN [out |-> Answer(Unchanged,
                         [Res(404, FALSE, "Route not found") EXCEPT !.by = "notFound"],
                         {}, tokens),
          ran |-> <<>>]
    ELSE IF rt.chain # <<>> /\ validateUser(body) # ""
    THEN [out |-> Answer(Unchanged,
                         [Res(400, FALSE, validateUser(body)) EXCEPT !.by = "validateUser"],
                         {}, tokens),
          ran |-> rt.chain]
    ELSE [out |-> Handle(rt.handler, r), ran |-> rt.chain \o <<rt.handler>>]

--------------------------------------------------------------------------
(* Inputs *)

Al == <<"A","l">>
AlB == <<"A","l"," ","B">>
Doe == <<"D","o","e">>
Email1 == <<"a">> \o EmailSuffix
Email2 == <<"b">> \o EmailSuffix
Secret == <<"s","e","c","r","e","t">>
Wrong == <<"w","r","o","n","g","!">>

Body(has, fn, em, age, role) ==
    [has |-> has, firstName |-> fn, lastName |-> Doe, middleInitial |-> <<>>,
     email |-> em, age |-> age, gender |-> "male", password |-> Secret, role |-> role]

FullKeys == RequiredPaths \cup {"password"}

EmptyBody == Body({}, <<>>, <<>>, 0, "")

RegisterBodies ==
    { Body(FullKeys, Al, Email1, 25, ""),
      Body(FullKeys \cup {"role"}, Al, Email1, 25, "admin") }

LoginBodies ==
    { EmptyBody,
      Body({"email", "password"}, <<>>, Email1, 0, ""),
      Body({"email"}, <<>>, Email2, 0, ""),
      [Body({"email", "password"}, <<>>, Email1, 0, "") EXCEPT !.password = Wrong],
      [Body({"email", "password"}, <<>>, Email1, 0, "") EXCEPT !.password = <<>>],
      [Body({"email", "password"}, <<>>, Email2, 0, "") EXCEPT !.password = Wrong] }

UpdateBodies ==
    { Body({"role"}, <<>>, <<>>, 0, "admin"),
      Body({"email"}, <<>>, Email2, 0, ""),
      Body({"email", "role"}, <<>>, Email1, 0, "staff"),
      Body({"firstName"}, AlB, <<>>, 0, ""),
      Body({"password"}, <<>>, <<>>, 0, "") }

HttpBodies ==
    { Body(FullKeys, Al, Email2, 25, ""),
      Body(FullKeys, AlB, Email1, 25, ""),
      Body({"role"}, <<>>, <<>>, 0, "admin") }

IdSegs == {IdSeg(i) : i \in 1..MaxUsers}

\* the method and path pairs clients send
Requests ==
    ({"GET"} \X (IdSegs \cup {Root, Lit("profile")}))
        \cup ({"POST"} \X {Root, Lit("register"), Lit("login")})
        \cup ({"PUT"} \X IdSegs)
        \cup ({"DELETE"} \X (IdSegs \cup {Lit("deleteAllUsers")}))

\* the identity a verified token attaches to a request, or none
Identities == {<<>>} \cup {<<t>> : t \in {u \in tokens : now < u.exp}}

NoHeader == [scheme |-> "none", tok |-> <<>>]

Signed(t) == [kind |-> "signed", claims |-> t]

\* claims nobody signed
Forged == [kind |-> "forged",
           claims |-> [id |-> 1, email |-> Email1, role |-> "admin",
                       iat |-> 0, exp |-> TokenLifetimeDays * (MaxTicks + 2)]]

Garbage == [kind |-> "malformed", claims |-> Forged.claims]

Bearer(tv) == [scheme |-> "Bearer", tok |-> <<tv>>]

\* the headers a client sends with a request to a route
RouteHeaders ==
    {NoHeader, [scheme |-> "Basic", tok |-> <<Garbage>>]}
        \cup {Bearer(Signed(t)) : t \in tokens}

Headers == RouteHeaders \cup {Bearer(Forged), Bearer(Garbage), [scheme |-> "Bearer", tok |-> <<>>]}

AllowedSets == {{"admin"}, {"admin", "staff"}, {"admin", Undef}}

MkReq(via, op, method, seg, body, user, header, allowed) ==
    [via |-> via, op |-> op, method |-> method, seg |-> seg, body |-> body,
     user |-> user, header |-> header, allowed |-> allowed]

NoSeg == Lit("-")

NoReq == MkReq("none", "none", "-", NoSeg, EmptyBody, <<>>, NoHeader, {})

--------------------------------------------------------------------------
(* The client: the axios instance with its interceptors and the user      *)
(* service.  The server is its environment: a response is any status with *)
(* or without a token in data.data.                                       *)

\* the tokens a login response may carry
ClientTokens == {"t1", "t2"}

Services == {"register", "login", "getProfile", "getAllUsers", "deleteUser"}

\* status 0 is no response at all (a timeout, the network down)
Statuses == {0, 200, 201, 400, 401, 403, 404, 500}

\* data.data.token of a response: <<>> when the body has none
Responses == [status : Statuses, token : {<<>>} \cup {<<t>> : t \in ClientTokens}]

NoSent == [svc |-> "none", auth |-> <<>>]

NoGot == [svc |-> "none", resolved |-> FALSE, token |-> <<>>]

\* the request interceptor: Authorization: Bearer <token> when localStorage has one
requestInterceptor(st) == IF st # <<>> THEN <<"Bearer", st[1]>> ELSE <<>>

\* a response interceptor that watches for 403 instead of 401
responseInterceptorForbidden(rsp, st) == IF rsp.status = 403 THEN <<>> ELSE st

\* the response interceptor: localStorage after a response, removeItem on 401
responseInterceptor(rsp, st) == IF rsp.status = 401 THEN <<>> ELSE st

\* axios resolves a 2xx response and rejects everything else
Resolved(rsp) == rsp.status >= 200 /\ rsp.status < 300

\* a user service whose register stores the token of its response as login does
serviceStoreAny(svc, rsp, st) ==
    IF svc \in {"login", "register"} /\ Resolved(rsp) /\ rsp.token # <<>> THEN rsp.token ELSE st

\* userService after the interceptor: login stores data.data.token of a
\* resolved response, every other service leaves localStorage alone
serviceStore(svc, rsp, st) ==
    IF svc = "login" /\ Resolved(rsp) /\ rsp.token # <<>> THEN rsp.token ELSE st

\* the login form's handleSubmit: after userService.login resolves it calls
\* userService.getProfile; a rejected login goes to the catch block
formFollowUp(svc, rsp) ==
    IF svc = "login" /\ Resolved(rsp) THEN <<"getProfile">> ELSE <<>>

--------------------------------------------------------------------------
(* Bodies validateUser is applied to: every field absent, empty, valid or *)
(* invalid.  An option is <<>> for an absent key and <<v>> for value v.    *)

NameOptions == {<<>>, << <<>> >>, <<Al>>, <<AlB>>, << <<"A","1">> >>}

InitialOptions == {<<>>, << <<"B">> >>, << <<"7">> >>}

EmailOptions == {<<>>, <<Email1>>, << <<"a","@","x",".","p","h">> >>}

AgeOptions == {<<>>, <<0>>, <<1>>, <<500>>, <<501>>, <<-5>>}

GenderOptions == {<<>>, <<"male">>, <<"other">>}

Pick(opt, none) == IF opt = <<>> THEN none ELSE opt[1]

ValidateBody(fn, mi, em, ag, ge) ==
    [has |-> {"lastName"}
                \cup (IF fn # <<>> THEN {"firstName"} ELSE {})
                \cup (IF mi # <<>> THEN {"middleInitial"} ELSE {})
                \cup (IF em # <<>> THEN {"email"} ELSE {})
                \cup (IF ag # <<>> THEN {"age"} ELSE {})
                \cup (IF ge # <<>> THEN {"gender"} ELSE {}),
     firstName |-> Pick(fn, <<>>), lastName |-> Doe, middleInitial |-> Pick(mi, <<>>),
     email |-> Pick(em, <<>>), age |-> Pick(ag, 0), gender |-> Pick(ge, ""),
     password |-> Secret, role |-> ""]

ValidateBodies ==
    {ValidateBody(fn, mi, em, ag, ge) :
        fn \in NameOptions, mi \in InitialOptions, em \in EmailOptions,
        ag \in AgeOptions, ge \in GenderOptions}

--------------------------------------------------------------------------
(* The state machine *)

\* the client before it has sent anything: no token in localStorage
ClientIdle ==
    /\ storage = <<>>
    /\ pending = {}
    /\ sent = NoSent
    /\ cleared = FALSE
    /\ got = NoGot

\* the rate limiter before the first request: nothing counted
LimiterIdle ==
    /\ hits = 0
    /\ windowAge = 0

\* the server after start-up: an empty collection, no token issued
ServerIdle ==
    /\ users = << >>
    /\ nextId = 1
    /\ tokens = {}
    /\ asked = << >>
    /\ now = 0
    /\ inflight = [b \in RegisterBodies |-> 0]
    /\ ran = <<>>
    /\ res = NoRes
    /\ nextArg = NotCalled
    /\ calls = {}

Init ==
    /\ ServerIdle
    /\ req = NoReq
    /\ ClientIdle
    /\ LimiterIdle

InflightCount == Cardinality({<<b, k>> \in RegisterBodies \X (1..MaxInflight) : k <= inflight[b]})

\* an operation completes with outcome out
Complete(r, rn, out) ==
    /\ out.nextId <= MaxUsers + 1
    /\ Cardinality(out.tokens) <= MaxTokens
    /\ users' = out.users
    /\ nextId' = out.nextId
    /\ tokens' = out.tokens
    /\ asked' = out.asked
    /\ req' = r
    /\ ran' = rn
    /\ res' = out.res
    /\ nextArg' = out.nextArg
    /\ calls' = out.calls
    /\ UNCHANGED now
    /\ UNCHANGED <<clientVars, limiterVars>>

HandlerReq(op, seg, body, user) == MkReq("handler", op, "-", seg, body, user, NoHeader, {})

\* register: findOne finds the email, the handler answers 400
RegisterExists(b) ==
    LET r == [body |-> b, seg |-> NoSeg, user |-> <<>>] IN
    /\ registerLookup(r).docs # <<>>
    /\ Complete(HandlerReq("register", NoSeg, b, <<>>), <<"register">>, registerExists(r))
    /\ UNCHANGED inflight

\* register: findOne finds nothing, the handler awaits User.create
RegisterBegin(b) ==
    LET r == [body |-> b, seg |-> NoSeg, user |-> <<>>] IN
    /\ registerLookup(r).docs = <<>>
    /\ InflightCount < MaxInflight
    /\ inflight' = [inflight EXCEPT ![b] = @ + 1]
    /\ UNCHANGED <<users, nextId, tokens, asked, now, req, ran, res, nextArg, calls>>
    /\ UNCHANGED <<clientVars, limiterVars>>

\* register: User.create returns or throws, the handler finishes
RegisterFinish(b) ==
    LET r == [body |-> b, seg |-> NoSeg, user |-> <<>>] IN
    /\ inflight[b] > 0
    /\ Complete(HandlerReq("register", NoSeg, b, <<>>), <<"register">>, registerCreate(r))
    /\ inflight' = [inflight EXCEPT ![b] = @ - 1]

\* a handler of the controller called with a request
Call(op, seg, body, user) ==
    /\ Complete(HandlerReq(op, seg, body, user), <<op>>,
                Handle(op, [body |-> body, seg |-> seg, user |-> user]))
    /\ UNCHANGED inflight

Login == \E b \in LoginBodies : Call("login", NoSeg, b, <<>>)

GetProfile == \E u \in Identities : Call("getProfile", NoSeg, EmptyBody, u)

UpdateUser ==
    \E s \in IdSegs, b \in UpdateBodies, u \in Identities : Call("updateUser", s, b, u)

DeleteUser == \E s \in IdSegs, u \in Identities : Call("deleteUser", s, EmptyBody, u)

DeleteAllUsers == \E u \in Identities : Call("deleteAllUsers", NoSeg, EmptyBody, u)

\* an HTTP request to /api/users...; a body is sent where a route reads one
HttpRequest ==
    \E q \in Requests, h \in RouteHeaders, b \in HttpBodies \cup {EmptyBody} :
        /\ (b # EmptyBody) <=> (q[1] \in {"POST", "PUT"})
        /\ LET sv == Serve(q[1], q[2], b) IN
           Complete(MkReq("http", Route(q[1], q[2]).handler, q[1], q[2], b, <<>>, h, {}),
                    sv.ran, sv.out)
        /\ UNCHANGED inflight

\* the auth middleware run on a request with header h
Auth ==
    \E h \in Headers :
        LET a == authMiddleware(h) IN
        /\ req' = MkReq("middleware", "auth", "-", NoSeg, EmptyBody, a.user, h, {})
        /\ ran' = <<"auth">>
        /\ res' = a.res
        /\ nextArg' = IF a.next THEN "next" ELSE NotCalled
        /\ calls' = {}
        /\ UNCHANGED <<users, nextId, tokens, asked, now, inflight>>
        /\ UNCHANGED <<clientVars, limiterVars>>

\* checkRole(...allowed) run on a request carrying identity u
CheckRole ==
    \E allowed \in AllowedSets, u \in Identities :
        LET c == checkRole(allowed, u) IN
        /\ req' = MkReq("middleware", "checkRole", "-", NoSeg, EmptyBody, u, NoHeader, allowed)
        /\ ran' = <<"checkRole">>
        /\ res' = c.res
        /\ nextArg' = IF c.next THEN "next" ELSE NotCalled
        /\ calls' = {}
        /\ UNCHANGED <<users, nextId, tokens, asked, now, inflight>>
        /\ UNCHANGED <<clientVars, limiterVars>>

\* time passes, a token lifetime at a time (the clock is read only against a
\* token's expiry, so it starts with the first token); what was observed of
\* the last operation is then no longer current
Tick ==
    /\ tokens # {}
    /\ now < MaxTicks * TokenLifetimeDays
    /\ now' = now + TokenLifetimeDays
    /\ req' = NoReq
    /\ ran' = <<>>
    /\ res' = NoRes
    /\ nextArg' = NotCalled
    /\ calls' = {}
    /\ UNCHANGED <<users, nextId, tokens, asked, inflight>>
    /\ UNCHANGED <<clientVars, limiterVars>>

Next ==
    \/ \E b \in RegisterBodies : RegisterExists(b)
    \/ \E b \in RegisterBodies : RegisterBegin(b)
    \/ \E b \in RegisterBodies : RegisterFinish(b)
    \/ Login
    \/ GetProfile
    \/ UpdateUser
    \/ DeleteUser
    \/ DeleteAllUsers
    \/ HttpRequest
    \/ Auth
    \/ CheckRole
    \/ Tick

Spec == Init /\ [][Next]_vars

--------------------------------------------------------------------------
(* validateUser on its own: a body arrives, the middleware answers or     *)
(* calls next                                                             *)

ValidateInit ==
    /\ ServerIdle
    /\ \E b \in ValidateBodies :
          req = MkReq("middleware", "validateUser", "-", NoSeg, b, <<>>, NoHeader, {})
    /\ ClientIdle
    /\ LimiterIdle

ValidateUser ==
    /\ ran = <<>>
    /\ ran' = <<"validateUser">>
    /\ res' = IF validateUserOutcome(req.body).sent = <<>> THEN NoRes
               ELSE [Res(400, FALSE, validateUserOutcome(req.body).sent[1])
                        EXCEPT !.by = "validateUser"]
    /\ nextArg' = IF validateUserOutcome(req.body).nexts > 0 THEN "next" ELSE NotCalled
    /\ UNCHANGED <<users, nextId, tokens, asked, now, inflight, req, calls>>
    /\ UNCHANGED <<clientVars, limiterVars>>

ValidateNext == ValidateUser

ValidateSpec == ValidateInit /\ [][ValidateNext]_vars

--------------------------------------------------------------------------
(* The client against any server *)

\* a service sends its request through the request interceptor
ClientSend(svc) ==
    /\ Cardinality(pending) < MaxPending
    /\ LET q == [svc |-> svc, auth |-> requestInterceptor(storage)] IN
       /\ q \notin pending
       /\ pending' = pending \cup {q}
       /\ sent' = q
    /\ UNCHANGED <<storage, cleared, got>>
    /\ UNCHANGED <<serverVars, limiterVars>>

\* the response to request q arrives: the response interceptor, then the
\* service, then the caller's continuation, which for the login form sends
\* getProfile through the request interceptor
ClientReceive(q, rsp) ==
    /\ q \in pending
    /\ got' = [svc |-> q.svc, resolved |-> Resolved(rsp), token |-> rsp.token]
    /\ storage' = serviceStore(q.svc, rsp, responseInterceptor(rsp, storage))
    /\ cleared' = IF q.svc = "login" /\ Resolved(rsp) /\ rsp.token # <<>> THEN FALSE
                   ELSE IF rsp.status = 401 THEN TRUE
                   ELSE cleared
    /\ LET follow == {[svc |-> formFollowUp(q.svc, rsp)[i], auth |-> requestInterceptor(storage')] :
                          i \in 1..Len(formFollowUp(q.svc, rsp))}
       IN /\ pending' = (pending \ {q}) \cup follow
          /\ sent' = IF follow # {} THEN CHOOSE f \in follow : TRUE
                     ELSE IF cleared' # cleared \/ rsp.status = 401 THEN NoSent
                     ELSE sent
    /\ UNCHANGED <<serverVars, limiterVars>>

\* userService.logout
ClientLogout ==
    /\ storage' = <<>>
    /\ cleared' = TRUE
    /\ sent' = NoSent
    /\ UNCHANGED <<pending, got>>
    /\ UNCHANGED <<serverVars, limiterVars>>

ClientNext ==
    \/ \E svc \in Services : ClientSend(svc)
    \/ \E q \in pending, rsp \in Responses : ClientReceive(q, rsp)
    \/ ClientLogout

ClientSpec == Init /\ [][ClientNext]_vars

--------------------------------------------------------------------------
(* Vocabulary of the properties *)

Handlers ==
    {"register", "login", "getProfile", "getAllUsers", "createUser",
     "getUserById", "updateUser", "deleteUser", "deleteAllUsers"}

\* some handler of the controller ran on the last request
HandlerRan == \E i \in 1..Len(ran) : ran[i] \in Handlers

\* the routes the interface table marks bearer
ProtectedRequests == Requests \ {<<"POST", Lit("register")>>, <<"POST", Lit("login")>>}

\* the routes the interface table marks admin
AdminRequests == ProtectedRequests \ {<<"GET", Lit("profile")>>}

\* the last request carried no Authorization header of the shape Bearer <token>
NoBearer == req.header.scheme # "Bearer" \/ req.header.tok = <<>>

\* the last request carried a token the server issued and that has not expired
ValidBearer == ~NoBearer /\ verify(req.header.tok[1]) = "ok"

CallerClaims == req.header.tok[1].claims

AccountsWith(email) == {i \in DOMAIN users : users[i].email = email}

DuplicateMessage == "User with this email already exists"

--------------------------------------------------------------------------
(* The handlers while the database is unreachable: the first store call   *)
(* of a handler rejects with a MongoError                                 *)

\* the store call a handler makes first
firstCall(op) ==
    CASE op \in {"register", "login"} -> "findOne"
      [] op \in {"getProfile", "getUserById"} -> "findById"
      [] op = "getAllUsers" -> "find"
      [] op = "createUser" -> "create"
      [] op = "updateUser" -> "findByIdAndUpdate"
      [] op = "deleteUser" -> "findByIdAndDelete"
      [] op = "deleteAllUsers" -> "deleteMany"

\* handler op on request r when its first store call rejects
rejected(op, r) ==
    IF op = "login" /\ (~Truthy(r.body, "email") \/ ~Truthy(r.body, "password"))
    THEN login(r)
    ELSE IF op = "getProfile" /\ r.user = <<>>
    THEN getProfile(r)
    ELSE Throw("MongoError", {firstCall(op)})

\* the body of the requests made while the database is unreachable
DownBody == Body(FullKeys, Al, Email2, 25, "")

StoreDown ==
    \E op \in Handlers, u \in Identities :
        /\ Complete(MkReq("storeDown", op, "-", IdSeg(1), DownBody, u, NoHeader, {}), <<op>>,
                    rejected(op, [body |-> DownBody, seg |-> IdSeg(1), user |-> u]))
        /\ UNCHANGED inflight

FailNext ==
    \/ \E b \in RegisterBodies : RegisterExists(b)
    \/ \E b \in RegisterBodies : RegisterBegin(b)
    \/ \E b \in RegisterBodies : RegisterFinish(b)
    \/ UpdateUser
    \/ HttpRequest
    \/ StoreDown

FailSpec == Init /\ [][FailNext]_vars

--------------------------------------------------------------------------
(* The rate limiter mounted on /api/: express-rate-limit counts the       *)
(* requests of a client per window and calls the handler option for a     *)
(* request over the maximum                                               *)

\* what express-rate-limit passes to the handler option, in order
HandlerArgs == <<"request", "response", "next", "options">>

TooManyMessage == "Too many requests, please try again later"

\* handler: (res) => { res.status(429).json(...) }; res is the first
\* argument, and only a response has a status method: on anything else the
\* call throws a TypeError, which the limiter passes to next
limitHandler(args) ==
    IF args[1] = "response"
    THEN [res |-> [Res(429, FALSE, TooManyMessage) EXCEPT !.by = "limiter"],
          nextArg |-> NotCalled]
    ELSE [res |-> errorHandler("TypeError"), nextArg |-> "TypeError"]

\* the limiter on the request that brings the window's count to n
limiter(n) ==
    IF n <= RateLimitMax
    THEN [res |-> NoRes, nextArg |-> "next"]
    ELSE limitHandler(HandlerArgs)

\* a request to /api/... reaches the limiter
Limiter ==
    \E q \in Requests :
        /\ hits < RateLimitMax + MaxOver
        /\ hits' = hits + 1
        /\ req' = MkReq("middleware", "limiter", q[1], q[2], EmptyBody, <<>>, NoHeader, {})
        /\ ran' = <<"limiter">>
        /\ res' = limiter(hits + 1).res
        /\ nextArg' = limiter(hits + 1).nextArg
        /\ calls' = {}
        /\ UNCHANGED <<users, nextId, tokens, asked, now, inflight, windowAge>>
        /\ UNCHANGED clientVars

\* a minute of the window passes; at windowMs the count starts again
LimiterTick ==
    /\ hits > 0
    /\ IF windowAge + 1 < RateLimitWindowMinutes
       THEN windowAge' = windowAge + 1 /\ UNCHANGED hits
       ELSE windowAge' = 0 /\ hits' = 0
    /\ UNCHANGED <<serverVars, clientVars>>

LimiterNext ==
    \/ Limiter
    \/ LimiterTick

LimiterSpec == Init /\ [][LimiterNext]_vars

--------------------------------------------------------------------------
(* Properties *)

\* C1: a deleteUser request whose target id is the caller's own id is answered
\* 403 "You cannot delete your own profile" and the store's delete is not invoked.
C1_SelfDeleteForbidden ==
    (req.op = "deleteUser" /\ req.user # <<>> /\ req.seg = IdSeg(req.user[1].id))
        => /\ res.status = 403
           /\ res.message = "You cannot delete your own profile"
           /\ "findByIdAndDelete" \notin calls

\* C2: an updateUser request on the caller's own id whose body has a role is
\* answered 403 "You cannot change your own role" and the store's update is
\* not invoked.
C2_SelfRoleChangeForbidden ==
    (/\ req.op = "updateUser"
     /\ req.user # <<>>
     /\ req.seg = IdSeg(req.user[1].id)
     /\ Has(req.body, "role"))
        => /\ res.status = 403
           /\ res.message = "You cannot change your own role"
           /\ "findByIdAndUpdate" \notin calls

\* C3: PUT /users/:id by an admin caller on another, existing account with the
\* body {role: "admin"} alone passes the middleware chain, reaches updateUser
\* and is answered with success.
C3_AdminPartialRoleUpdate ==
    (/\ req.via = "http"
     /\ req.method = "PUT"
     /\ IsObjectId(req.seg)
     /\ req.seg.n \in DOMAIN users
     /\ ValidBearer
     /\ asked[CallerClaims] = "admin"
     /\ CallerClaims.id # req.seg.n
     /\ req.body.has = {"role"}
     /\ req.body.role = "admin")
        => /\ ran = <<"validateUser", "updateUser">>
           /\ res.status = 200
           /\ res.success

\* C4: on every protected route a request without an Authorization header of
\* the shape Bearer <token> is answered 401 and reaches neither the handler
\* nor the store.
C4_NoBearerNoEntry ==
    (req.via = "http" /\ <<req.method, req.seg>> \in ProtectedRequests /\ NoBearer)
        => /\ res.status = 401
           /\ ~HandlerRan
           /\ calls = {}

\* C5: on every admin-only route the handler runs only if the role claim of
\* the verified token is in {admin}; any other role is answered 403 and
\* reaches neither the handler nor the store.
C5_AdminRoutesCheckRole ==
    (/\ req.via = "http"
     /\ <<req.method, req.seg>> \in AdminRequests
     /\ ValidBearer
     /\ CallerClaims.role \notin {"admin"})
        => /\ res.status = 403
           /\ ~HandlerRan
           /\ calls = {}

\* C6: whichever verification of a present bearer token fails (signature,
\* shape, expiry), the auth middleware answers 401 "Invalid or expired token",
\* attaches no identity and does not call next.
C6_UniformInvalidToken ==
    (req.op = "auth" /\ ~NoBearer /\ verify(req.header.tok[1]) # "ok")
        => /\ res.status = 401
           /\ res.message = "Invalid or expired token"
           /\ ~res.success
           /\ req.user = <<>>
           /\ nextArg = NotCalled

\* C6 witness: the auth middleware has rejected an expired token
C6_ExpiredRejected ==
    /\ req.op = "auth"
    /\ ~NoBearer
    /\ verify(req.header.tok[1]) = "expired"
    /\ res.status = 401

\* C7: a token issued to an account created with role staff is authorized as
\* staff on every later request until it expires: an admin-only route answers
\* it 403 and runs no handler.
C7_StaffTokenStaysStaff ==
    (/\ req.via = "http"
     /\ <<req.method, req.seg>> \in AdminRequests
     /\ ValidBearer
     /\ asked[CallerClaims] = "staff")
        => /\ res.status = 403
           /\ ~HandlerRan

\* C8: a register request whose email belongs to a stored account is answered
\* 400 "User with this email already exists", never goes on to User.create,
\* and leaves the store as it was.
C8_DuplicateRegisterRejected ==
    [][\A b \in RegisterBodies :
          EmailTaken(users, Trim(b.email), {}) =>
              /\ inflight'[b] <= inflight[b]
              /\ (req'.op = "register" /\ req'.body = b /\ inflight' = inflight)
                    => /\ res'.status = 400
                       /\ res'.message = DuplicateMessage
                       /\ ~res'.success
                       /\ calls' = {"findOne"}
                       /\ users' = users
                       /\ nextId' = nextId
                       /\ tokens' = tokens]_vars

\* C8 witness: register has answered 400 for an email that is stored
C8_DuplicateAnswered ==
    /\ req.op = "register"
    /\ res.status = 400
    /\ calls = {"findOne"}
    /\ AccountsWith(Trim(req.body.email)) # {}

C10_EmailsUnique ==
    \A i, j \in DOMAIN users : users[i].email = users[j].email => i = j

\* C10 witness: an update that would have given two accounts one email was refused
C10_DuplicateUpdateRefused ==
    /\ Cardinality(DOMAIN users) = 2
    /\ req.op = "updateUser"
    /\ Has(req.body, "email")
    /\ nextArg = "DuplicateKey"

\* C11: a login with an unknown email and a login with a stored email and a
\* wrong password get the identical answer 401 "Invalid email or password"
\* from the handler, and no token is issued.
C11_LoginNoEnumeration ==
    (/\ req.op = "login"
     /\ Truthy(req.body, "email")
     /\ Has(req.body, "password")
     /\ req.body.password = Wrong)
        => /\ res = Res(401, FALSE, "Invalid email or password")
           /\ nextArg = NotCalled

\* C12: a successful register whose body has no role stores role staff,
\* answers data.user.role = staff and signs a token with role staff.
C12_DefaultRoleStaff ==
    (req.op = "register" /\ res.status = 201 /\ ~Truthy(req.body, "role"))
        => /\ res.user[1].role = "staff"
           /\ res.token[1].role = "staff"
           /\ res.user[1].id \in DOMAIN users
           /\ roleOf(users[res.user[1].id]) = "staff"

\* C13: no response carries the credential field of an account, neither in
\* the documents it returns nor in its user summary.
C13_NoCredentialInResponses ==
    /\ \A i \in 1..Len(res.docs) : "password" \notin DOMAIN res.docs[i]
    /\ \A i \in 1..Len(res.user) : "password" \notin DOMAIN res.user[i]

\* C13 witness: createUser answered 201 with the document made of a body
\* that carried a password
C13_CreatedWithPassword ==
    /\ req.op = "createUser"
    /\ Has(req.body, "password")
    /\ res.status = 201
    /\ res.docs # <<>>

\* C14: after a register, createUser or updateUser whose body carries a
\* password the account holds a credential, and it is a hash: not the
\* plaintext that was submitted.
C14_CredentialHashed ==
    (/\ req.op \in {"register", "createUser", "updateUser"}
     /\ Has(req.body, "password")
     /\ res.status \in {200, 201})
        => LET id == IF res.docs # <<>> THEN res.docs[1]._id ELSE res.user[1].id IN
           /\ id \in DOMAIN users
           /\ credentialOf(users[id]) \notin {Undef, req.body.password}

\* C16: POST /users/register runs validateRegistration first: a missing or
\* empty password is answered 400 "Some Fields are Missing", a password
\* shorter than 6 characters 400 "Password must be at least 6 characters
\* long", and register runs only when every check passes (a password of
\* exactly 6 characters passes).
C16_RegistrationValidated ==
    (req.via = "http" /\ req.method = "POST" /\ req.seg = Lit("register"))
        => /\ ran # <<>>
           /\ ran[1] = "validateRegistration"
           /\ (validateUser(req.body) # "" \/ ~Truthy(req.body, "password"))
                 => (res.status = 400 /\ ~HandlerRan)
           /\ (validateUser(req.body) = "" /\ ~Truthy(req.body, "password"))
                 => res.message = Missing
           /\ (/\ validateUser(req.body) = ""
               /\ Truthy(req.body, "password")
               /\ Len(req.body.password) < 6)
                 => (/\ res.status = 400
                     /\ res.message = "Password must be at least 6 characters long"
                     /\ ~HandlerRan)
           /\ (/\ validateUser(req.body) = ""
               /\ Truthy(req.body, "password")
               /\ Len(req.body.password) >= 6)
                 => ran = <<"validateRegistration", "register">>

\* C17: deleteAllUsers answers 200 "<n> users deleted" with n the number of
\* accounts stored right before it and leaves the store empty; on an empty
\* store the message is "0 users deleted".
C17_DeleteAllCount ==
    [][(req'.op = "deleteAllUsers" /\ inflight' = inflight)
          => /\ res'.status = 200
             /\ res'.success
             /\ res'.message = deletedMessage(Cardinality(DOMAIN users))
             /\ (users = << >> => res'.message = "0 users deleted")
             /\ users' = << >>]_vars

\* C17 witness: deleteAllUsers has removed two accounts and said so
C17_TwoDeleted ==
    /\ req.op = "deleteAllUsers"
    /\ res.message = "2 users deleted"
    /\ users = << >>

C20_LiteralRoutesDispatched ==
    LET q == <<req.method, req.seg>>
        want == CASE q = <<"POST", Lit("register")>> -> "register"
                  [] q = <<"POST", Lit("login")>> -> "login"
                  [] q = <<"GET", Lit("profile")>> -> "getProfile"
                  [] q = <<"DELETE", Lit("deleteAllUsers")>> -> "deleteAllUsers"
                  [] OTHER -> ""
    IN (req.via = "http" /\ want # "")
          => /\ res.by # "notFound"
             /\ \A i \in 1..Len(ran) : ran[i] \in Handlers => ran[i] = want

\* C15: validateUser checks presence, then the name charset, then the email
\* domain, then the age range, then the gender, and answers 400 with the
\* message of the first check that fails; an age of 0 is answered "Some
\* Fields are Missing".
C15_FirstFailureWins ==
    (req.op = "validateUser" /\ ran = <<"validateUser">>)
        => LET b == req.body
               present == \A f \in {"firstName", "lastName", "email", "age", "gender"} :
                              Truthy(b, f)
               names == /\ nameRegex(b.firstName)
                        /\ nameRegex(b.lastName)
                        /\ (Truthy(b, "middleInitial") => initialRegex(b.middleInitial))
               domain == emailRegex(b.email)
               range == b.age >= 1 /\ b.age <= 500
               enum == b.gender \in {"male", "female", "rather not say"}
               want == IF ~present THEN "Some Fields are Missing"
                       ELSE IF ~names THEN "Names must contain only letters and spaces"
                       ELSE IF ~domain THEN "Only smu.edu.ph Emails Onlys"
                       ELSE IF ~range THEN "Age Must Be Between 1 and 500"
                       ELSE IF ~enum THEN "Gender is Invalid"
                       ELSE ""
           IN /\ want # "" => (res.status = 400 /\ res.message = want /\ nextArg = NotCalled)
              /\ want = "" => (res = NoRes /\ nextArg = "next")
              /\ (Has(b, "age") /\ b.age = 0) => res.message = "Some Fields are Missing"

\* C15 witness: a body complete but for its age of 0 was answered
\* "Some Fields are Missing"
C15_AgeZeroMissing ==
    /\ req.op = "validateUser"
    /\ ran = <<"validateUser">>
    /\ req.body.has = {"firstName", "lastName", "email", "age", "gender"}
    /\ req.body.age = 0
    /\ validateUser([req.body EXCEPT !.age = 1]) = ""
    /\ res.message = "Some Fields are Missing"

\* C19: after a 401 response or a logout, and until a login succeeds, the
\* client's localStorage holds no token and the requests it sends carry no
\* Authorization header.
C19_ClearedMeansNoToken ==
    cleared => (storage = <<>> /\ sent.auth = <<>>)

\* C19 witness: a token was stored, a 401 removed it, and a request has
\* been sent since, without an Authorization header
C19_SentAfterUnauthorized ==
    /\ cleared
    /\ sent.svc = "getProfile"
    /\ sent.auth = <<>>
    /\ \E q \in pending : q.auth # <<>>

\* C21: when a store operation of a handler throws, the handler passes that
\* same error to next, writes no response itself and leaves the store as it
\* was.
C21_StoreErrorToNext ==
    [][LET r == req'
           ranHandler == \E i \in 1..Len(ran') : ran'[i] \in Handlers
           threw == IF r.via = "storeDown"
                    THEN IF \/ r.op = "login" /\ ~Truthy(r.body, "password")
                            \/ r.op = "getProfile" /\ r.user = <<>>
                         THEN NoErr ELSE "MongoError"
                    ELSE IF ~ranHandler THEN NoErr
                    ELSE CASE r.op = "createUser" -> create(r.body).err
                           [] r.op = "register" /\ "create" \in calls' -> create(r.body).err
                           [] r.op = "updateUser" -> findByIdAndUpdate(r.seg, r.body).err
                           [] r.op = "deleteUser" -> findByIdAndDelete(r.seg).err
                           [] r.op = "getUserById" -> findById(r.seg).err
                           [] OTHER -> NoErr
       IN (threw # NoErr /\ \A b \in RegisterBodies : inflight'[b] <= inflight[b])
             => /\ nextArg' = threw
                /\ res'.by = "errorHandler"
                /\ users' = users]_vars

\* C21 witness: deleteAllUsers met an unreachable database, passed the
\* error to next and removed nothing
C21_DeleteAllRejected ==
    /\ req.via = "storeDown"
    /\ req.op = "deleteAllUsers"
    /\ nextArg = "MongoError"
    /\ calls = {"deleteMany"}
    /\ users # << >>

\* C22: on every body validateUser has exactly one outcome: it calls next
\* and writes nothing, or it writes one 400 {success: false, message} and
\* does not call next; it makes no store call and the store stays as it was.
C22_ValidateOneOutcome ==
    (req.op = "validateUser" /\ ran = <<"validateUser">>)
        => /\ \/ nextArg = "next" /\ res = NoRes
              \/ /\ nextArg = NotCalled
                 /\ res.by = "validateUser"
                 /\ res.status = 400
                 /\ ~res.success
                 /\ res.message # ""
           /\ calls = {}
           /\ users = << >>
           /\ nextId = 1

\* C22 witness: validateUser has rejected a body on its last check, the gender
C22_GenderRejected ==
    /\ req.op = "validateUser"
    /\ ran = <<"validateUser">>
    /\ res.message = BadGender
    /\ nextArg = NotCalled

\* C23: a firstName and lastName that validateUser accepted are accepted by
\* the schema as well: a request that passed validateUser does not fail in
\* the store on a name rule.
C23_NamesAgree ==
    (req.via = "http" /\ Len(ran) = 2 /\ ran[1] = "validateUser")
        => /\ \A f \in {"firstName", "lastName"} : PathValid(f, CastPath(req.body, f))
           /\ nextArg # "ValidationError"

\* C24: the unexpired token of an account that has been deleted still
\* passes the auth middleware, and getProfile with its identity is answered
\* 404 "User not found" by the handler, with no data and no error.
C24_DeletedAccountProfile ==
    (/\ req.op = "getProfile"
     /\ req.via = "handler"
     /\ req.user # <<>>
     /\ req.user[1] \in tokens
     /\ req.user[1].id \notin DOMAIN users)
        => /\ authMiddleware(Bearer(Signed(req.user[1]))).next
           /\ authMiddleware(Bearer(Signed(req.user[1]))).user = req.user
           /\ res = Res(404, FALSE, "User not found")
           /\ nextArg = NotCalled
           /\ calls = {"findById"}

\* C24 witness: getProfile was called with the token of an account that was
\* registered and then deleted
C24_ProfileOfDeleted ==
    /\ req.op = "getProfile"
    /\ req.via = "handler"
    /\ req.user # <<>>
    /\ req.user[1].id < nextId
    /\ req.user[1].id \notin DOMAIN users
    /\ res.status = 404

\* C25: an updateUser whose id matches no stored account is answered 404
\* {success: false, message: "User Not Found"}.
C25_UpdateMissingNotFound ==
    (/\ req.op = "updateUser"
     /\ req.via = "handler"
     /\ IsObjectId(req.seg)
     /\ req.seg.n \notin DOMAIN users
     /\ nextArg = NotCalled)
        => /\ res.status = 404
           /\ ~res.success
           /\ res.message = "User Not Found"

\* C26: a login whose email or password is missing or empty is answered 400
\* "Email and password are required" before any store call, with no token.
C26_LoginFieldsRequired ==
    (/\ req.op = "login"
     /\ req.via = "handler"
     /\ (~Truthy(req.body, "email") \/ ~Truthy(req.body, "password")))
        => /\ res = Res(400, FALSE, "Email and password are required")
           /\ calls = {}
           /\ nextArg = NotCalled

\* C26 witness: a login with a stored email and an empty password was
\* answered 400
C26_EmptyPasswordRefused ==
    /\ req.op = "login"
    /\ req.via = "handler"
    /\ Has(req.body, "password")
    /\ req.body.password = <<>>
    /\ AccountsWith(Trim(req.body.email)) # {}
    /\ res.status = 400

\* C27: no deleteUser and no deleteAllUsers removes the account of the
\* caller who makes the request.
C27_NoSelfRemoval ==
    [][(/\ req'.op \in {"deleteUser", "deleteAllUsers"}
        /\ req'.via = "handler"
        /\ req'.user # <<>>
        /\ inflight' = inflight
        /\ req'.user[1].id \in DOMAIN users)
          => req'.user[1].id \in DOMAIN users']_vars

C29_BearerFromStorage ==
    [][LET bearer(st) == IF st = <<>> THEN <<>> ELSE <<"Bearer", st[1]>> IN
       /\ (sent' # NoSent /\ (sent' # sent \/ pending' \ pending # {}))
             => (sent'.auth = bearer(storage') /\ sent' \in pending')
       /\ \A q \in pending' \ pending : q.auth = bearer(storage')
       /\ \A q \in pending, rsp \in Responses :
             ClientReceive(q, rsp) =>
                /\ (q.svc = "login" /\ Resolved(rsp) /\ rsp.token # <<>>)
                      => /\ storage' = rsp.token
                         /\ sent' = [svc |-> "getProfile", auth |-> <<"Bearer", rsp.token[1]>>]
                         /\ sent' \in pending'
                /\ (q.svc = "register" /\ Resolved(rsp))
                      => (storage' = storage /\ pending' = pending \ {q})]_vars

\* C29 witness: the response received last is a login's, with token t1; t1 is
\* in localStorage and the getProfile request sent after it carries Bearer t1
C29_ProfileSentWithLoginToken ==
    /\ got.svc = "login"
    /\ got.resolved
    /\ got.token = <<"t1">>
    /\ storage = <<"t1">>
    /\ sent = [svc |-> "getProfile", auth |-> <<"Bearer", "t1">>]
    /\ sent \in pending

\* C30: a register whose body has role admin stores role admin and signs a
\* token with role admin, which checkRole('admin') lets through.
C30_RegisterRoleFromBody ==
    (/\ req.op = "register"
     /\ res.status = 201
     /\ Truthy(req.body, "role")
     /\ req.body.role = "admin")
        => /\ res.user[1].id \in DOMAIN users
           /\ roleOf(users[res.user[1].id]) = "admin"
           /\ res.user[1].role = "admin"
           /\ res.token[1].role = "admin"
           /\ checkRole({"admin"}, res.token).next

====
